---------------------------- MODULE Spec2Model ----------------------------
(***************************************************************************)
(* A model of nanostream (src/nanostream.c, src/nanostream.h) and of the   *)
(* tile loop of its driver (src/eval/main.cpp).                            *)
(*                                                                         *)
(* Numbers.  A C float is modelled as an exact rational [n |-> numerator,  *)
(* d |-> denominator] in lowest terms with d > 0, and INFINITY/-INFINITY   *)
(* as 1/0 and -1/0.  Arithmetic on floats is exact: the rounding of        *)
(* binary32 and its overflow and underflow are outside this model.  Every  *)
(* conversion between integers, bytes and floats is computed as the code   *)
(* computes it (scale by 1/255, clamp, round half to even, mask, shift).   *)
(*                                                                         *)
(* Memory.  A byte buffer is a function from byte offsets to bytes; the    *)
(* output image is kept in rows of `pitch' bytes, so that offset a is      *)
(* byte a % pitch of row a \div pitch.                                     *)
(***************************************************************************)
EXTENDS Integers, Sequences, FiniteSets, TLC

(***************************************************************************)
(* Program constants.                                                      *)
(***************************************************************************)
NANOSTREAM_TILE_WIDTH == 160
NANOSTREAM_TILE_HEIGHT == 120
SIZEOF_FLOAT == 4
NANOSTREAM_PACKET_SIZE == 1200 + (12 * SIZEOF_FLOAT * 2)
NUM_VALUES_PER_BLOCK == 192
NUM_EIGEN_VALUES == 8
BLOCK_SIZE == 8
BYTES_PER_EV_BLOCK == 4
\* the blocks of a column, taken for the blocks of a row
BLOCKS_PER_X_of_height == NANOSTREAM_TILE_HEIGHT \div BLOCK_SIZE

BLOCKS_PER_X == NANOSTREAM_TILE_WIDTH \div BLOCK_SIZE
BLOCKS_PER_Y == NANOSTREAM_TILE_HEIGHT \div BLOCK_SIZE
NUM_BLOCKS == BLOCKS_PER_X * BLOCKS_PER_Y
SIZEOF_EV_RANGE == NUM_EIGEN_VALUES * SIZEOF_FLOAT

(***************************************************************************)
(* Bit operations of C on non-negative ints.                               *)
(***************************************************************************)
RECURSIVE BitAnd(_, _)
BitAnd(a, b) ==
  IF a = 0 \/ b = 0 THEN 0
  ELSE (IF a % 2 = 1 /\ b % 2 = 1 THEN 1 ELSE 0) + 2 * BitAnd(a \div 2, b \div 2)

RECURSIVE BitOr(_, _)
BitOr(a, b) ==
  IF a = 0 THEN b
  ELSE IF b = 0 THEN a
  ELSE (IF a % 2 = 1 \/ b % 2 = 1 THEN 1 ELSE 0) + 2 * BitOr(a \div 2, b \div 2)

RECURSIVE Pow2(_)
Pow2(k) == IF k = 0 THEN 1 ELSE 2 * Pow2(k - 1)

Shl(a, k) == a * Pow2(k)
Shr(a, k) == a \div Pow2(k)
\* (unsigned char)v for an int v >= 0
ToUChar(v) == v % 256

(***************************************************************************)
(* Floats as exact rationals.                                              *)
(***************************************************************************)
Abs(i) == IF i < 0 THEN -i ELSE i

RECURSIVE GCD(_, _)
GCD(a, b) == IF b = 0 THEN a ELSE GCD(b, a % b)

Frac(n, d) ==
  LET g == GCD(Abs(n), Abs(d))
      s == IF d < 0 THEN -1 ELSE 1
  IN  [n |-> (s * n) \div g, d |-> (s * d) \div g]

F(i) == [n |-> i, d |-> 1]
INFINITY == [n |-> 1, d |-> 0]
NEG_INFINITY == [n |-> -1, d |-> 0]

FNeg(a) == [n |-> -a.n, d |-> a.d]

FAdd(a, b) ==
  IF a.n = 0 THEN b
  ELSE IF b.n = 0 THEN a
  ELSE IF a.d = b.d THEN Frac(a.n + b.n, a.d)
  ELSE LET g == GCD(a.d, b.d)
       IN  Frac(a.n * (b.d \div g) + b.n * (a.d \div g), (a.d \div g) * b.d)

FSub(a, b) == FAdd(a, FNeg(b))

FMul(a, b) ==
  IF a.n = 0 \/ b.n = 0 THEN F(0)
  ELSE LET g1 == GCD(Abs(a.n), b.d)
           g2 == GCD(Abs(b.n), a.d)
       IN  [n |-> (a.n \div g1) * (b.n \div g2), d |-> (a.d \div g2) * (b.d \div g1)]

\* a / b for b # 0
FDiv(a, b) ==
  FMul(a, [n |-> (IF b.n < 0 THEN -b.d ELSE b.d), d |-> Abs(b.n)])

\* a < b, also for the infinities
FLt(a, b) ==
  IF a.d > 0 /\ b.d > 0 THEN a.n * b.d < b.n * a.d
  ELSE IF a.d = 0 /\ b.d = 0 THEN a.n < b.n
  ELSE IF a.d = 0 THEN a.n < 0
  ELSE b.n > 0

FGt(a, b) == FLt(b, a)
FLe(a, b) == ~FLt(b, a)

fminf(a, b) == IF FLt(b, a) THEN b ELSE a
fmaxf(a, b) == IF FLt(a, b) THEN b ELSE a
FAbs(a) == [n |-> Abs(a.n), d |-> a.d]

\* lrintf in the default rounding mode: to nearest, ties to even
lrintf(a) ==
  LET fl == a.n \div a.d
      r  == a.n % a.d
  IN  IF 2 * r < a.d THEN fl
      ELSE IF 2 * r > a.d THEN fl + 1
      ELSE IF fl % 2 = 0 THEN fl ELSE fl + 1


(***************************************************************************)
(* The statistical basis.  src/nanostream.c declares the two tables        *)
(* (extern const float) and their values are supplied from outside: the    *)
(* model injects a table chosen from a few synthetic ones.  j is an index  *)
(* of the block vector: plane j \div 64 (R, G, B), row (j % 64) \div 8,    *)
(* column j % 8.                                                           *)
(*   "dc"   orthonormal, the three flat (per plane) vectors and five       *)
(*          half-plane contrasts; mean 2/5                                 *)
(*   "ac"   orthonormal, contrasts only (no flat vector); mean 2/5         *)
(*   "skew" neither orthogonal nor normalised; mean depends on j          *)
(***************************************************************************)
BasisIds == {"dc", "ac", "skew"}

Plane(j) == j \div (BLOCK_SIZE * BLOCK_SIZE)
RowOf(j) == (j % (BLOCK_SIZE * BLOCK_SIZE)) \div BLOCK_SIZE
ColOf(j) == j % BLOCK_SIZE

\* +1/8 or -1/8 on plane p, by pattern: 0 flat, 1 top/bottom, 2 left/right,
\* 3 quadrants; 0 elsewhere
Contrast(p, pattern, j) ==
  IF Plane(j) # p THEN F(0)
  ELSE LET top  == RowOf(j) < BLOCK_SIZE \div 2
           left == ColOf(j) < BLOCK_SIZE \div 2
           pos  == CASE pattern = 0 -> TRUE
                     [] pattern = 1 -> top
                     [] pattern = 2 -> left
                     [] OTHER       -> (top = left)
       IN  Frac(IF pos THEN 1 ELSE -1, 8)

\* f itself, with every value of it computed (once) where this is evaluated
Eager(f) == f @@ << >>

MeanOf(basis, j) ==
  IF basis = "skew" THEN Frac(1 + (j % 3), 5) ELSE Frac(2, 5)

EigenOf(basis, i, j) ==
  CASE basis = "dc" ->
         (IF i < 3 THEN Contrast(i, 0, j)
          ELSE IF i < 6 THEN Contrast(i - 3, 1, j)
          ELSE Contrast(i - 6, 2, j))
    [] basis = "ac" ->
         (IF i < 3 THEN Contrast(i, 1, j)
          ELSE IF i < 6 THEN Contrast(i - 3, 2, j)
          ELSE Contrast(i - 6, 3, j))
    [] OTHER ->
         Frac(((i * 7 + j * 3 + Plane(j)) % 3) - 1, 4 * (1 + (i % 2)))

\* the tables themselves
nanostream_mean ==
  Eager([basis \in BasisIds |->
           Eager([j \in 0..(NUM_VALUES_PER_BLOCK - 1) |-> MeanOf(basis, j)])])

nanostream_eigen_values ==
  Eager([basis \in BasisIds |->
           Eager([i \in 0..(NUM_EIGEN_VALUES - 1) |->
                    Eager([j \in 0..(NUM_VALUES_PER_BLOCK - 1) |-> EigenOf(basis, i, j)])])])

(***************************************************************************)
(* The transforms of src/nanostream.c.                                     *)
(***************************************************************************)
u8_to_f32(x) == FMul(F(x), FDiv(F(1), F(255)))

f32_to_u8(x) ==
  LET y0 == IF FLt(x, F(0)) THEN F(0) ELSE x
      y  == IF FGt(y0, F(1)) THEN F(1) ELSE y0
      v0 == lrintf(FMul(y, F(255)))
      v1 == IF v0 < 0 THEN 0 ELSE v0
      v  == IF v1 > 255 THEN 255 ELSE v1
  IN  ToUChar(v)

\* Rd(a) is the byte at offset a of the image that `rgb' points into
block_to_vec(Rd(_), rgb, pitch) ==
  [j \in 0..(NUM_VALUES_PER_BLOCK - 1) |->
     u8_to_f32(Rd(rgb + RowOf(j) * pitch + ColOf(j) * 3 + Plane(j)))]

\* The sums of the two projections are evaluated over a common denominator:
\* a vector of floats c is c[j] = IntVec(c, d)[j] / d for d = CommonDen(c), and
\* a sum of products of floats is a sum of products of integers over the
\* product of the two denominators.  The value is the exact sum, whatever
\* the order of the additions.
LCM(a, b) == (a \div GCD(a, b)) * b

RECURSIVE CommonDenOf(_, _, _)
CommonDenOf(c, lo, hi) ==
  IF lo = hi THEN c[lo].d
  ELSE LET m == (lo + hi) \div 2
       IN  LCM(CommonDenOf(c, lo, m), CommonDenOf(c, m + 1, hi))

\* c is a function on 0..n-1
CommonDen(c) == CommonDenOf(c, 0, Cardinality(DOMAIN c) - 1)

IntVecOver(c, d) == Eager([j \in DOMAIN c |-> c[j].n * (d \div c[j].d)])

RECURSIVE ISum(_, _, _)
ISum(Term(_), lo, hi) ==
  IF lo = hi THEN Term(lo)
  ELSE LET m == (lo + hi) \div 2
       IN  ISum(Term, lo, m) + ISum(Term, m + 1, hi)

\* sum over j of a[j] * b[j], for a = an / ad and b = bn / bd
DotOver(an, ad, bn, bd) ==
  LET Term(j) == an[j] * bn[j]
  IN  Frac(ISum(Term, 0, Cardinality(DOMAIN an) - 1), ad * bd)

\* nanostream_eigen_values[basis][i][j] = EigenNum[basis][i][j] / EigenDen[basis]
EigenDen ==
  Eager([basis \in BasisIds |->
           CommonDen([i \in 0..(NUM_EIGEN_VALUES - 1) |->
                        Frac(1, CommonDen(nanostream_eigen_values[basis][i]))])])
EigenNum ==
  Eager([basis \in BasisIds |->
           Eager([i \in 0..(NUM_EIGEN_VALUES - 1) |->
                    IntVecOver(nanostream_eigen_values[basis][i], EigenDen[basis])])])

\* line 156: the row of eigen_values that holds block (by, bx); column-major
\* in ev_row_column_major
ev_row_column_major(by, bx) == bx * BLOCKS_PER_Y + by
ev_row(by, bx) == by * BLOCKS_PER_X + bx

\* lines 58-65 for the vector `centered' of v[j] - nanostream_mean[j]
project_scaled(basis, cn, cd) ==
  [i \in 0..(NUM_EIGEN_VALUES - 1) |->
     DotOver(cn, cd, EigenNum[basis][i], EigenDen[basis])]
project_over(basis, centered, cd) == project_scaled(basis, IntVecOver(centered, cd), cd)
project(basis, centered) == project_over(basis, centered, CommonDen(centered))

\* the projection of v itself, the mean not subtracted
to_eigen_values_uncentered(basis, v) == project(basis, Eager(v))

to_eigen_values(basis, v) ==
  project(basis, Eager([j \in 0..(NUM_VALUES_PER_BLOCK - 1) |->
                          FSub(v[j], nanostream_mean[basis][j])]))

\* the range tracker with fmaxf where the minimum is tracked
expand_eigen_value_bounds_max(eigen_values, ev_min, ev_max) ==
  << [i \in 0..(NUM_EIGEN_VALUES - 1) |-> fmaxf(ev_min[i], eigen_values[i])],
     [i \in 0..(NUM_EIGEN_VALUES - 1) |-> fmaxf(ev_max[i], eigen_values[i])] >>

\* returns the new <<ev_min, ev_max>>
expand_eigen_value_bounds(eigen_values, ev_min, ev_max) ==
  << [i \in 0..(NUM_EIGEN_VALUES - 1) |-> fminf(ev_min[i], eigen_values[i])],
     [i \in 0..(NUM_EIGEN_VALUES - 1) |-> fmaxf(ev_max[i], eigen_values[i])] >>

\* a range test that lets an inverted range through
range_usable_nonzero(denom) == denom.n # 0

\* line 85: the range is usable, and the division of line 88 is performed
range_usable(denom) == FGt(denom, F(0))

\* lines 88-92: t
quantize_t(x, min_x, denom) ==
  LET t0 == FDiv(FSub(x, min_x), denom)
      t1 == IF FLt(t0, F(0)) THEN F(0) ELSE t0
  IN  IF FGt(t1, F(1)) THEN F(1) ELSE t1

\* the code quantize_q would return were res + 1 the scale and nothing clamped
quantize_q_scale(t, res) == lrintf(FMul(t, F(res + 1)))

\* lines 94-99: q
quantize_q(t, res) ==
  LET q0 == lrintf(FMul(t, F(res)))
      q1 == IF q0 < 0 THEN 0 ELSE q0
  IN  IF q1 > res THEN res ELSE q1

quantize_f32(x, min_x, max_x, res) ==
  IF res <= 0 THEN 0
  ELSE LET denom == FSub(max_x, min_x) IN
    IF ~range_usable(denom) THEN 0
    ELSE quantize_q(quantize_t(x, min_x, denom), res)

\* dequantize_f32 without the offset min_x
dequantize_f32_scale(q, min_x, max_x, res) ==
  IF res <= 0 THEN min_x
  ELSE LET qq0 == IF q < 0 THEN 0 ELSE q
           qq  == IF qq0 > res THEN res ELSE qq0
       IN  FMul(FMul(F(qq), FDiv(F(1), F(res))), FSub(max_x, min_x))

dequantize_f32(q, min_x, max_x, res) ==
  IF res <= 0 THEN min_x
  ELSE LET qq0 == IF q < 0 THEN 0 ELSE q
           qq  == IF qq0 > res THEN res ELSE qq0
           t   == FMul(F(qq), FDiv(F(1), F(res)))
       IN  FAdd(min_x, FMul(t, FSub(max_x, min_x)))

\* the quantizer resolution of coefficient i: 8, 8, 4, 4, 2, 2, 2, 2 bits
Levels(i) == IF i < 2 THEN 255 ELSE IF i < 4 THEN 15 ELSE 3

\* lines 122-130: the codes q0..q7
ev_codes(ev, ev_min, ev_max) ==
  [i \in 0..(NUM_EIGEN_VALUES - 1) |->
     quantize_f32(ev[i], ev_min[i], ev_max[i], Levels(i))]

\* the record with the two 4-bit codes in each other's place
pack_bits_swapped(q) ==
  << ToUChar(BitAnd(q[0], 255)),
     ToUChar(BitAnd(q[1], 255)),
     ToUChar(BitOr(Shl(BitAnd(q[3], 15), 4), BitAnd(q[2], 15))),
     ToUChar(BitOr(BitOr(BitAnd(q[4], 3), Shl(BitAnd(q[5], 3), 2)),
                   BitOr(Shl(BitAnd(q[6], 3), 4), Shl(BitAnd(q[7], 3), 6)))) >>

\* lines 132-135: the four bytes of a record
pack_bits(q) ==
  << ToUChar(BitAnd(q[0], 255)),
     ToUChar(BitAnd(q[1], 255)),
     ToUChar(BitOr(Shl(BitAnd(q[2], 15), 4), BitAnd(q[3], 15))),
     ToUChar(BitOr(BitOr(BitAnd(q[4], 3), Shl(BitAnd(q[5], 3), 2)),
                   BitOr(Shl(BitAnd(q[6], 3), 4), Shl(BitAnd(q[7], 3), 6)))) >>

quantize_eigen_values(ev, ev_min, ev_max) ==
  pack_bits(ev_codes(ev, ev_min, ev_max))

\* lines 226-234 of nanostream_decode_tile: the codes of a record b0..b3
unpack_bits(b) ==
  [i \in 0..(NUM_EIGEN_VALUES - 1) |->
     CASE i = 0 -> b[1]
       [] i = 1 -> b[2]
       [] i = 2 -> BitAnd(Shr(b[3], 4), 15)
       [] i = 3 -> BitAnd(b[3], 15)
       [] i = 4 -> BitAnd(b[4], 3)
       [] i = 5 -> BitAnd(Shr(b[4], 2), 3)
       [] i = 6 -> BitAnd(Shr(b[4], 4), 3)
       [] OTHER -> BitAnd(Shr(b[4], 6), 3)]

\* lines 236-243
dequantize_codes(q, ev_min, ev_max) ==
  [i \in 0..(NUM_EIGEN_VALUES - 1) |->
     dequantize_f32(q[i], ev_min[i], ev_max[i], Levels(i))]

\* lines 176-182 for ev = evn / ed
expand_scaled(basis, evn, ed) ==
  [j \in 0..(NUM_VALUES_PER_BLOCK - 1) |->
     LET Term(i) == evn[i] * EigenNum[basis][i][j]
     IN  FAdd(nanostream_mean[basis][j],
              Frac(ISum(Term, 0, NUM_EIGEN_VALUES - 1), ed * EigenDen[basis]))]
expand_over(basis, ev, ed) == expand_scaled(basis, IntVecOver(ev, ed), ed)

eigen_values_to_block_vec(basis, ev) == expand_over(basis, ev, CommonDen(ev))

\* vec_to_block reading v pixel by pixel (R, G, B interleaved), not plane by plane
vec_to_block_interleaved(rgb, pitch, v) ==
  [a \in { rgb + y * pitch + x * 3 + c :
             y \in 0..(BLOCK_SIZE - 1), x \in 0..(BLOCK_SIZE - 1), c \in 0..2 } |->
     LET y == (a - rgb) \div pitch
         x == ((a - rgb) % pitch) \div 3
         c == ((a - rgb) % pitch) % 3
     IN  f32_to_u8(v[(y * BLOCK_SIZE + x) * 3 + c])]

\* the bytes vec_to_block stores, as a function from the offsets it writes
\* (rgb + y*pitch + x*3 + c) to the byte written there; pitch >= 24 in every
\* call, so no two of its 192 stores hit the same offset
vec_to_block(rgb, pitch, v) ==
  [a \in { rgb + y * pitch + x * 3 + c :
             y \in 0..(BLOCK_SIZE - 1), x \in 0..(BLOCK_SIZE - 1), c \in 0..2 } |->
     LET y == (a - rgb) \div pitch
         x == ((a - rgb) % pitch) \div 3
         c == ((a - rgb) % pitch) % 3
     IN  f32_to_u8(v[c * (BLOCK_SIZE * BLOCK_SIZE) + y * BLOCK_SIZE + x])]

(***************************************************************************)
(* State.                                                                  *)
(***************************************************************************)
VARIABLES
  pc,            \* where the tile's encode-then-decode is
  img,           \* the input image (its content)
  tables,        \* the injected basis table
  w, h,          \* the input image's size in pixels
  tile,          \* i of process_image: the tile being processed
  block_y,       \* block_y of the block loops of encode and of decode
  blk_i,         \* i of the quantizing loop of encode
  enc_ev,  \* encode: enc_ev[block][coefficient]
  enc_min, enc_max,\* encode: the range being tracked
  enc_ptr,       \* encode: packet_buffer, as an offset into the packet
  packet,        \* process_image: packet_buffer[NANOSTREAM_PACKET_SIZE]
  dec_min, dec_max, \* decode: enc_min, enc_max
  dec_ptr,       \* decode: packet_buffer, as an offset into the packet
  pkt_read,      \* the packet offsets decode has read
  out_rgb        \* process_image: out_rgb, in rows of the output pitch

tile_vars == << pc, img, tables, w, h, tile, block_y, blk_i, enc_ev,
                enc_min, enc_max, enc_ptr, packet, dec_min, dec_max, dec_ptr,
                pkt_read, out_rgb >>

\* one call of quantize_f32 followed by one of dequantize_f32
VARIABLES
  qz_pc,         \* where the call is
  qz_x, qz_min_x, qz_max_x, qz_res,  \* the arguments
  qz_denom, qz_t,\* the locals of quantize_f32
  qz_divided,    \* whether the division of line 88 has been performed
  qz_q,          \* what quantize_f32 returned
  qz_value       \* what dequantize_f32 returned

quant_vars == << qz_pc, qz_x, qz_min_x, qz_max_x, qz_res, qz_denom, qz_t,
                 qz_divided, qz_q, qz_value >>

\* the packing of quantize_eigen_values and the unpacking of decode
VARIABLES
  pk_pc,
  pk_q,          \* q0..q7 of quantize_eigen_values
  pk_bits,       \* bits[0..3]
  pk_out         \* q0..q7 of nanostream_decode_tile

pack_vars == << pk_pc, pk_q, pk_bits, pk_out >>

\* block_to_vec of one block, then vec_to_block of the vector
VARIABLES
  bt_pc,
  bt_seed,       \* the content of the block
  bt_rgb, bt_pitch, \* the arguments rgb (an offset) and pitch
  bt_v,          \* v[NUM_VALUES_PER_BLOCK]
  bt_out         \* the bytes vec_to_block stored, by offset

block_vars == << bt_pc, bt_seed, bt_rgb, bt_pitch, bt_v, bt_out >>

\* the calls of process_image, one encode and one decode per tile
VARIABLES
  im_w, im_h,    \* the input image's size in pixels
  im_packet,     \* im_packet[i]: packet_buffer of iteration i
  im_decoded,    \* the iterations whose decode call has returned
  im_out         \* out_rgb, in rows of chunks of one tile row

image_vars == << im_w, im_h, im_packet, im_decoded, im_out >>

vars == << tile_vars, quant_vars, pack_vars, block_vars, image_vars >>

\* the variables of the parts that are not running
TileIdle ==
  /\ pc = "idle" /\ img = "flat128" /\ tables = "dc"
  /\ w = 0 /\ h = 0 /\ tile = 0
  /\ block_y = 0 /\ blk_i = 0
  /\ enc_ev = << >> /\ enc_min = << >> /\ enc_max = << >>
  /\ enc_ptr = 0 /\ packet = << >>
  /\ dec_min = << >> /\ dec_max = << >>
  /\ dec_ptr = 0 /\ pkt_read = {} /\ out_rgb = << >>

QuantIdle ==
  /\ qz_pc = "idle"
  /\ qz_x = F(0) /\ qz_min_x = F(0) /\ qz_max_x = F(0) /\ qz_res = 0
  /\ qz_denom = F(0) /\ qz_t = F(0) /\ qz_divided = FALSE
  /\ qz_q = 0 /\ qz_value = F(0)

PackIdle ==
  /\ pk_pc = "idle" /\ pk_q = << >> /\ pk_bits = << >> /\ pk_out = << >>

BlockIdle ==
  /\ bt_pc = "idle" /\ bt_seed = 0 /\ bt_rgb = 0 /\ bt_pitch = 0
  /\ bt_v = << >> /\ bt_out = << >>

ImageIdle ==
  /\ im_w = 0 /\ im_h = 0 /\ im_packet = << >> /\ im_decoded = {}
  /\ im_out = << >>

(***************************************************************************)
(* The input image: the byte at pixel (px, py), channel c.                 *)
(***************************************************************************)

Pattern(image, px, py, c) ==
  IF image = "flat128" THEN 128
  ELSE (3 * px + 5 * py + 40 * c + (px \div 8) * (py \div 8)) % 256

\* the byte at offset a of the w pixels wide RGB image
InByte(image, width, a) ==
  Pattern(image, (a % (width * 3)) \div 3, a \div (width * 3), a % 3)

(***************************************************************************)
(* The geometry of process_image (src/eval/main.cpp).                      *)
(***************************************************************************)
x_tiles(width) == width \div NANOSTREAM_TILE_WIDTH
y_tiles(height) == height \div NANOSTREAM_TILE_HEIGHT
num_tiles(width, height) == x_tiles(width) * y_tiles(height)
\* the tile's row taken for its column
tile_x_of_row(width, i) == (i \div x_tiles(width)) * NANOSTREAM_TILE_WIDTH

tile_x(width, i) == (i % x_tiles(width)) * NANOSTREAM_TILE_WIDTH
tile_y(width, i) == (i \div x_tiles(width)) * NANOSTREAM_TILE_HEIGHT
\* the rgb argument of nanostream_encode_tile, as an offset into the input
in_ptr(width, i) == (tile_y(width, i) * width + tile_x(width, i)) * 3
in_pitch(width) == width * 3
\* out_ptr, as an offset into out_rgb, and the pitch given to decode
out_ptr(width, i) ==
  (tile_y(width, i) * (x_tiles(width) * NANOSTREAM_TILE_WIDTH) + tile_x(width, i)) * 3
out_pitch(width) == x_tiles(width) * NANOSTREAM_TILE_WIDTH * 3
out_size(width, height) ==
  num_tiles(width, height) * NANOSTREAM_TILE_WIDTH * NANOSTREAM_TILE_HEIGHT * 3

(***************************************************************************)
(* Buffers.                                                                *)
(***************************************************************************)
\* a byte of malloc'ed or automatic storage nobody has written
UNINIT == -1

\* a packet cell: a byte written as a byte, or byte idx of the float f that a
\* memcpy stored, or nothing yet
NoCell == [kind |-> "uninit", val |-> UNINIT, f |-> F(0), idx |-> 0]
ByteCell(v) == [kind |-> "byte", val |-> v, f |-> F(0), idx |-> 0]
FloatCell(f, idx) == [kind |-> "float", val |-> UNINIT, f |-> f, idx |-> idx]

\* memcpy(packet + at, arr, sizeof arr) for a float[NUM_EIGEN_VALUES] arr
memcpy_out(pkt, at, arr) ==
  [o \in DOMAIN pkt |->
     IF at <= o /\ o < at + SIZEOF_EV_RANGE
     THEN FloatCell(arr[(o - at) \div SIZEOF_FLOAT], (o - at) % SIZEOF_FLOAT)
     ELSE pkt[o]]

\* memcpy(arr, packet + at, sizeof arr): element i of arr
memcpy_in(pkt, at, i) == pkt[at + SIZEOF_FLOAT * i].f

\* out_rgb is kept in rows of p bytes (p its pitch), a row in chunks of
\* TILE_ROW_BYTES bytes, and a chunk nobody has written to is NoChunk:
\* byte a is byte a % TILE_ROW_BYTES of chunk (a % p) \div TILE_ROW_BYTES of
\* row a \div p
TILE_ROW_BYTES == NANOSTREAM_TILE_WIDTH * 3
NoChunk == << >>

\* the byte at offset a
load(mem, p, a) ==
  LET chunk == mem[a \div p][((a % p) \div TILE_ROW_BYTES) + 1]
  IN  IF chunk = NoChunk THEN UNINIT ELSE chunk[(a % TILE_ROW_BYTES) + 1]

\* the chunk at offset `base' after the stores `writes' (offset |-> byte)
store_chunk(chunk, base, writes) ==
  IF \A o \in 0..(TILE_ROW_BYTES - 1) : base + o \notin DOMAIN writes THEN chunk
  ELSE [o \in 1..TILE_ROW_BYTES |->
          IF base + o - 1 \in DOMAIN writes THEN writes[base + o - 1]
          ELSE IF chunk = NoChunk THEN UNINIT ELSE chunk[o]]

\* out_rgb after the stores `writes'
store(mem, p, writes) ==
  LET rows == { a \div p : a \in DOMAIN writes } IN
  [r \in DOMAIN mem |->
     IF r \in rows
     THEN [c \in DOMAIN mem[r] |->
             store_chunk(mem[r][c], r * p + (c - 1) * TILE_ROW_BYTES, writes)]
     ELSE mem[r]]

(***************************************************************************)
(* One iteration of the loop of process_image: nanostream_encode_tile of   *)
(* tile `tile' of the input into packet, then nanostream_decode_tile of    *)
(* packet into out_rgb.  An action is one iteration of an outer loop of    *)
(* the code (a row of blocks), a whole single loop, or the straight-line   *)
(* code between two loops.                                                 *)
(***************************************************************************)
MaxXTiles == 2
\* an image n tiles wide, and some pixels more when n > 1
WidthOf(n) == NANOSTREAM_TILE_WIDTH * n + 5 * (n - 1)
Scenarios == { <<"flat128", "dc">>, <<"flat128", "ac">>, <<"ramp", "skew">> }

TileInit ==
  /\ pc = "encode"
  /\ \E s \in Scenarios : img = s[1] /\ tables = s[2]
  /\ w = WidthOf(MaxXTiles)
  /\ h = NANOSTREAM_TILE_HEIGHT
  /\ tile \in 0..(num_tiles(w, h) - 1)
  /\ block_y = 0 /\ blk_i = 0
  /\ enc_ev = [k \in 0..(NUM_BLOCKS - 1) |-> << >>]
  /\ enc_min = << >> /\ enc_max = << >>
  /\ enc_ptr = 0
  /\ packet = [o \in 0..(NANOSTREAM_PACKET_SIZE - 1) |-> NoCell]
  /\ dec_min = << >> /\ dec_max = << >>
  /\ dec_ptr = 0
  /\ pkt_read = {}
  /\ out_rgb = [r \in 0..((out_size(w, h) \div out_pitch(w)) - 1) |->
                  [c \in 1..(out_pitch(w) \div TILE_ROW_BYTES) |-> NoChunk]]

\* lines 141-149: the locals, and the range set to the empty one
EncodeBegin ==
  /\ pc = "encode"
  /\ enc_min' = [i \in 0..(NUM_EIGEN_VALUES - 1) |-> INFINITY]
  /\ enc_max' = [i \in 0..(NUM_EIGEN_VALUES - 1) |-> NEG_INFINITY]
  /\ block_y' = 0
  /\ pc' = "enc_scan"
  /\ UNCHANGED << img, tables, w, h, tile, blk_i, enc_ev, enc_ptr, packet,
                  dec_min, dec_max, dec_ptr, pkt_read, out_rgb >>
  /\ UNCHANGED << quant_vars, pack_vars, block_vars, image_vars >>

\* lines 156-158 with ev computed: eigen_values[k] = ev, and the range
\* expanded to `bounds'
scan_store(st, k, ev, bounds) ==
  [ev |-> [st.ev EXCEPT ![k] = ev], mn |-> Eager(bounds[1]), mx |-> Eager(bounds[2])]

\* lines 153-158: block (by, bx) of the image Rd, for st = [ev |->
\* eigen_values, mn |-> ev_min, mx |-> ev_max]
scan_block_ev(st, by, bx, ev) ==
  scan_store(st, ev_row(by, bx), ev, expand_eigen_value_bounds(ev, st.mn, st.mx))

\* lines 152-159: the blocks bx, bx + 1, ... of row by
RECURSIVE scan_row(_, _, _, _, _, _)
scan_row(st, Rd(_), rgb, pitch, by, bx) ==
  IF bx >= BLOCKS_PER_X THEN st
  ELSE LET block_rgb_ptr == rgb + (by * BLOCK_SIZE) * pitch + (bx * BLOCK_SIZE * 3)
       IN  scan_row(scan_block_ev(st, by, bx,
                                  to_eigen_values(tables, block_to_vec(Rd, block_rgb_ptr, pitch))),
                    Rd, rgb, pitch, by, bx + 1)

\* lines 151-159: one row of blocks of the scan
EncodeScanRow ==
  /\ pc = "enc_scan"
  /\ LET Rd(a) == InByte(img, w, a) IN
       \E st \in { scan_row([ev |-> enc_ev, mn |-> enc_min, mx |-> enc_max],
                             Rd, in_ptr(w, tile), in_pitch(w), block_y, 0) } :
         /\ enc_ev' = st.ev
         /\ enc_min' = st.mn
         /\ enc_max' = st.mx
  /\ block_y' = block_y + 1
  /\ pc' = IF block_y + 1 < BLOCKS_PER_Y THEN pc ELSE "enc_header"
  /\ UNCHANGED << img, tables, w, h, tile, blk_i, enc_ptr, packet,
                  dec_min, dec_max, dec_ptr, pkt_read, out_rgb >>
  /\ UNCHANGED << quant_vars, pack_vars, block_vars, image_vars >>

\* lines 161-165: the header
EncodeHeader ==
  /\ pc = "enc_header"
  /\ packet' = memcpy_out(memcpy_out(packet, enc_ptr, enc_min),
                          enc_ptr + SIZEOF_EV_RANGE, enc_max)
  /\ enc_ptr' = enc_ptr + SIZEOF_EV_RANGE + SIZEOF_EV_RANGE
  /\ pc' = "enc_quant"
  /\ UNCHANGED << img, tables, w, h, tile, block_y, blk_i, enc_ev, enc_min,
                  enc_max, dec_min, dec_max, dec_ptr, pkt_read, out_rgb >>
  /\ UNCHANGED << quant_vars, pack_vars, block_vars, image_vars >>

\* lines 167-170 with bits computed: the packet after iterations 0..n-1,
\* iteration i storing bits[i] at packet_buffer + i * BYTES_PER_EV_BLOCK
store_records(pkt, packet_buffer, n, bits) ==
  [o \in DOMAIN pkt |->
     IF packet_buffer <= o /\ o < packet_buffer + n * BYTES_PER_EV_BLOCK
     THEN ByteCell(bits[(o - packet_buffer) \div BYTES_PER_EV_BLOCK]
                       [((o - packet_buffer) % BYTES_PER_EV_BLOCK) + 1])
     ELSE pkt[o]]

\* lines 167-170: the records
EncodeQuantize ==
  /\ pc = "enc_quant"
  /\ packet' = store_records(packet, enc_ptr, BLOCKS_PER_X * BLOCKS_PER_Y,
                             Eager([i \in 0..(BLOCKS_PER_X * BLOCKS_PER_Y - 1) |->
                                      quantize_eigen_values(enc_ev[i], enc_min, enc_max)]))
  /\ enc_ptr' = enc_ptr + (BLOCKS_PER_X * BLOCKS_PER_Y) * BYTES_PER_EV_BLOCK
  /\ blk_i' = BLOCKS_PER_X * BLOCKS_PER_Y
  /\ pc' = "decode"
  /\ UNCHANGED << img, tables, w, h, tile, block_y, enc_ev, enc_min,
                  enc_max, dec_min, dec_max, dec_ptr, pkt_read, out_rgb >>
  /\ UNCHANGED << quant_vars, pack_vars, block_vars, image_vars >>

\* lines 206-216 of nanostream_decode_tile: the header
DecodeHeader ==
  /\ pc = "decode"
  /\ dec_min' = [i \in 0..(NUM_EIGEN_VALUES - 1) |-> memcpy_in(packet, 0, i)]
  /\ dec_max' = [i \in 0..(NUM_EIGEN_VALUES - 1) |-> memcpy_in(packet, SIZEOF_EV_RANGE, i)]
  /\ dec_ptr' = SIZEOF_EV_RANGE + SIZEOF_EV_RANGE
  /\ pkt_read' = pkt_read \cup (0..(SIZEOF_EV_RANGE + SIZEOF_EV_RANGE - 1))
  /\ block_y' = 0
  /\ pc' = "dec_blocks"
  /\ UNCHANGED << img, tables, w, h, tile, blk_i, enc_ev, enc_min, enc_max,
                  enc_ptr, packet, out_rgb >>
  /\ UNCHANGED << quant_vars, pack_vars, block_vars, image_vars >>

\* lines 220-249: the bytes block (by, bx) stores, its record at packet_buffer
decode_block(pkt, packet_buffer, rgb, pitch, by, bx) ==
  LET q  == unpack_bits(<< pkt[packet_buffer].val, pkt[packet_buffer + 1].val,
                           pkt[packet_buffer + 2].val, pkt[packet_buffer + 3].val >>)
      block_rgb_ptr == rgb + (by * BLOCK_SIZE) * pitch + (bx * BLOCK_SIZE * 3)
  IN  vec_to_block(block_rgb_ptr, pitch,
                   Eager(eigen_values_to_block_vec(tables, dequantize_codes(q, dec_min, dec_max))))

\* lines 219-250: the bytes the blocks bx, bx + 1, ... of row by store
RECURSIVE decode_row(_, _, _, _, _, _)
decode_row(pkt, packet_buffer, rgb, pitch, by, bx) ==
  IF bx >= BLOCKS_PER_X THEN << >>
  ELSE Eager(decode_block(pkt, packet_buffer, rgb, pitch, by, bx))
         @@ decode_row(pkt, packet_buffer + BYTES_PER_EV_BLOCK, rgb, pitch, by, bx + 1)

\* lines 218-250: one row of blocks
DecodeRow ==
  /\ pc = "dec_blocks"
  /\ out_rgb' = store(out_rgb, out_pitch(w),
                      decode_row(packet, dec_ptr, out_ptr(w, tile), out_pitch(w), block_y, 0))
  /\ pkt_read' = pkt_read \cup (dec_ptr..(dec_ptr + BLOCKS_PER_X * BYTES_PER_EV_BLOCK - 1))
  /\ dec_ptr' = dec_ptr + BLOCKS_PER_X * BYTES_PER_EV_BLOCK
  /\ block_y' = block_y + 1
  /\ pc' = IF block_y + 1 < BLOCKS_PER_Y THEN pc ELSE "done"
  /\ UNCHANGED << img, tables, w, h, tile, blk_i, enc_ev, enc_min, enc_max,
                  enc_ptr, packet, dec_min, dec_max >>
  /\ UNCHANGED << quant_vars, pack_vars, block_vars, image_vars >>

TileNext ==
  \/ EncodeBegin
  \/ EncodeScanRow
  \/ EncodeHeader
  \/ EncodeQuantize
  \/ DecodeHeader
  \/ DecodeRow

\* The state before one tile of process_image starts; the other components stay idle.
Init ==
  /\ TileInit
  /\ QuantIdle
  /\ PackIdle
  /\ BlockIdle
  /\ ImageIdle

Spec ==
  /\ Init
  /\ [][TileNext]_vars

(***************************************************************************)
(* quantize_f32 (lines 78-100) step by step, then dequantize_f32 of its    *)
(* result with the same range, for arguments of a grid.                    *)
(***************************************************************************)
QSpan == 2
QDen == 7
QNum == 10
QuantBounds == { Frac(n, 2) : n \in (0 - QSpan)..QSpan }
QuantValues == { Frac(n, QDen) : n \in (0 - QNum)..QNum }
QuantLevels == { -1, 0, 1, 2 } \cup { Levels(i) : i \in 0..(NUM_EIGEN_VALUES - 1) }

QuantInit ==
  /\ qz_pc = "quantize"
  /\ qz_x \in QuantValues
  /\ qz_min_x \in QuantBounds
  /\ qz_max_x \in QuantBounds
  /\ qz_res \in QuantLevels
  /\ qz_denom = F(0) /\ qz_t = F(0) /\ qz_divided = FALSE
  /\ qz_q = 0 /\ qz_value = F(0)

\* lines 81-84
QuantizeEntry ==
  /\ qz_pc = "quantize"
  /\ IF qz_res <= 0
     THEN qz_q' = 0 /\ qz_pc' = "quantized" /\ qz_denom' = qz_denom
     ELSE qz_denom' = FSub(qz_max_x, qz_min_x) /\ qz_pc' = "range" /\ qz_q' = qz_q
  /\ UNCHANGED << qz_x, qz_min_x, qz_max_x, qz_res, qz_t, qz_divided, qz_value >>
  /\ UNCHANGED << tile_vars, pack_vars, block_vars, image_vars >>

\* lines 85-92
QuantizeRange ==
  /\ qz_pc = "range"
  /\ IF ~range_usable(qz_denom)
     THEN qz_q' = 0 /\ qz_pc' = "quantized" /\ qz_t' = qz_t /\ qz_divided' = qz_divided
     ELSE /\ qz_t' = quantize_t(qz_x, qz_min_x, qz_denom)
          /\ qz_divided' = TRUE
          /\ qz_pc' = "round"
          /\ qz_q' = qz_q
  /\ UNCHANGED << qz_x, qz_min_x, qz_max_x, qz_res, qz_denom, qz_value >>
  /\ UNCHANGED << tile_vars, pack_vars, block_vars, image_vars >>

\* lines 94-99
QuantizeRound ==
  /\ qz_pc = "round"
  /\ qz_q' = quantize_q(qz_t, qz_res)
  /\ qz_pc' = "quantized"
  /\ UNCHANGED << qz_x, qz_min_x, qz_max_x, qz_res, qz_denom, qz_t, qz_divided, qz_value >>
  /\ UNCHANGED << tile_vars, pack_vars, block_vars, image_vars >>

\* lines 102-116, called with what quantize_f32 returned
Dequantize ==
  /\ qz_pc = "quantized"
  /\ qz_value' = dequantize_f32(qz_q, qz_min_x, qz_max_x, qz_res)
  /\ qz_pc' = "dequantized"
  /\ UNCHANGED << qz_x, qz_min_x, qz_max_x, qz_res, qz_denom, qz_t, qz_divided, qz_q >>
  /\ UNCHANGED << tile_vars, pack_vars, block_vars, image_vars >>

QuantNext ==
  \/ QuantizeEntry
  \/ QuantizeRange
  \/ QuantizeRound
  \/ Dequantize

\* The state before one call of quantize_f32 starts; the other components stay idle.
InitQuant ==
  /\ QuantInit
  /\ TileIdle
  /\ PackIdle
  /\ BlockIdle
  /\ ImageIdle

SpecQuant ==
  /\ InitQuant
  /\ [][QuantNext]_vars

\* quantize_f32 has returned
QuantizeReturned == qz_pc \in {"quantized", "dequantized"}

(***************************************************************************)
(* The packing of lines 132-135 followed by the unpacking of lines         *)
(* 220-234.  A byte of the record is made of the codes of its own group    *)
(* only (q0; q1; q2 and q3; q4..q7), so the codes of one group run         *)
(* through all their values while the others are those of ExampleCodes.    *)
(***************************************************************************)
ExampleCodes == [i \in 0..(NUM_EIGEN_VALUES - 1) |-> << 5, 200, 3, 12, 1, 2, 3, 0 >>[i + 1]]
CodeGroups == { {0}, {1}, {2, 3}, {4, 5, 6, 7} }
\* the codes in which those of group g (all of one width) take the values f
GroupCodes(g) ==
  { [i \in 0..(NUM_EIGEN_VALUES - 1) |-> IF i \in g THEN f[i] ELSE ExampleCodes[i]] :
      f \in [g -> 0..Levels(CHOOSE i \in g : TRUE)] }

PackInit ==
  /\ pk_pc = "pack"
  /\ \E g \in CodeGroups :
       pk_q \in GroupCodes(g)
  /\ pk_bits = << >>
  /\ pk_out = << >>

\* lines 132-135
Pack ==
  /\ pk_pc = "pack"
  /\ pk_bits' = pack_bits(pk_q)
  /\ pk_pc' = "unpack"
  /\ UNCHANGED << pk_q, pk_out >>
  /\ UNCHANGED << tile_vars, quant_vars, block_vars, image_vars >>

\* lines 220-234
Unpack ==
  /\ pk_pc = "unpack"
  /\ pk_out' = unpack_bits(pk_bits)
  /\ pk_pc' = "unpacked"
  /\ UNCHANGED << pk_q, pk_bits >>
  /\ UNCHANGED << tile_vars, quant_vars, block_vars, image_vars >>

PackNext ==
  \/ Pack
  \/ Unpack

\* The state before one call of quantize_eigen_values starts; the other components stay idle.
InitPack ==
  /\ PackInit
  /\ TileIdle
  /\ QuantIdle
  /\ BlockIdle
  /\ ImageIdle

SpecPack ==
  /\ InitPack
  /\ [][PackNext]_vars

(***************************************************************************)
(* block_to_vec (lines 38-52) of one 8x8 block of an image, then           *)
(* vec_to_block (lines 185-201) of the vector to the same place.  The      *)
(* block's bytes differ at every pixel and channel, and over the seeds     *)
(* every byte value occurs at every one of them.                           *)
(***************************************************************************)
BlockPad == 5
BlockSeeds == 0..255

\* the byte at offset a of an image of `pitch' bytes a row
BlockByte(seed, pitch, a) ==
  (seed + 64 * ((a % pitch) % 3) + BLOCK_SIZE * (a \div pitch) + ((a % pitch) \div 3)) % 256

BlockInit ==
  /\ bt_pc = "block_to_vec"
  /\ bt_seed \in BlockSeeds
  /\ \E pad \in {0, BlockPad} :
       /\ bt_pitch = BLOCK_SIZE * 3 + pad
       /\ bt_rgb = 3 * pad
  /\ bt_v = << >>
  /\ bt_out = << >>

BlockToVec ==
  /\ bt_pc = "block_to_vec"
  /\ LET Rd(a) == BlockByte(bt_seed, bt_pitch, a)
     IN  bt_v' = block_to_vec(Rd, bt_rgb, bt_pitch)
  /\ bt_pc' = "vec_to_block"
  /\ UNCHANGED << bt_seed, bt_rgb, bt_pitch, bt_out >>
  /\ UNCHANGED << tile_vars, quant_vars, pack_vars, image_vars >>

VecToBlock ==
  /\ bt_pc = "vec_to_block"
  /\ bt_out' = vec_to_block(bt_rgb, bt_pitch, bt_v)
  /\ bt_pc' = "stored"
  /\ UNCHANGED << bt_seed, bt_rgb, bt_pitch, bt_v >>
  /\ UNCHANGED << tile_vars, quant_vars, pack_vars, image_vars >>

BlockNext ==
  \/ BlockToVec
  \/ VecToBlock

\* The state before one call of block_to_vec starts; the other components stay idle.
InitBlock ==
  /\ BlockInit
  /\ TileIdle
  /\ QuantIdle
  /\ PackIdle
  /\ ImageIdle

SpecBlock ==
  /\ InitBlock
  /\ [][BlockNext]_vars

(***************************************************************************)
(* process_image (src/eval/main.cpp, lines 11-45) call by call: for each   *)
(* tile i one call of nanostream_encode_tile into the packet_buffer of     *)
(* iteration i, then one call of nanostream_decode_tile of that buffer     *)
(* into out_rgb; the calls of different tiles in any order.  A call is     *)
(* one step.  A packet is what encode made of its arguments rgb and pitch; *)
(* decode stores, for each row y of the tile, the NANOSTREAM_TILE_WIDTH * 3*)
(* bytes rgb[y*pitch + 0 ..] it makes of the packet: out_rgb is kept in    *)
(* rows of chunks of that many bytes.                                      *)
(***************************************************************************)
MaxImageXTiles == 3
ImageHeights == { NANOSTREAM_TILE_HEIGHT, 2 * NANOSTREAM_TILE_HEIGHT + 7 }
NoPacket == << >>

ImageInit ==
  /\ \E n \in 1..MaxImageXTiles : im_w = WidthOf(n)
  /\ im_h \in ImageHeights
  /\ im_packet = [i \in 0..(num_tiles(im_w, im_h) - 1) |-> NoPacket]
  /\ im_decoded = {}
  /\ im_out = [r \in 0..((out_size(im_w, im_h) \div out_pitch(im_w)) - 1) |->
                 [c \in 0..((out_pitch(im_w) \div TILE_ROW_BYTES) - 1) |-> NoChunk]]

\* out_rgb after nanostream_decode_tile(packet_buffer, pitch, out_rgb + rgb):
\* row y of the tile is the chunk at offset rgb + y * pitch
decode_chunks(mem, packet_buffer, rgb, pitch) ==
  [r \in DOMAIN mem |->
     IF r - (rgb \div pitch) \in 0..(NANOSTREAM_TILE_HEIGHT - 1)
     THEN [mem[r] EXCEPT ![(rgb % pitch) \div TILE_ROW_BYTES] =
                           << packet_buffer, r - (rgb \div pitch) >>]
     ELSE mem[r]]

\* line 30
EncodeTileCall(i) ==
  /\ im_packet[i] = NoPacket
  /\ im_packet' = [im_packet EXCEPT ![i] = << in_ptr(im_w, i), in_pitch(im_w) >>]
  /\ UNCHANGED << im_w, im_h, im_decoded, im_out >>
  /\ UNCHANGED << tile_vars, quant_vars, pack_vars, block_vars >>

\* lines 32-34
DecodeTileCall(i) ==
  /\ im_packet[i] # NoPacket
  /\ i \notin im_decoded
  /\ im_out' = decode_chunks(im_out, im_packet[i], out_ptr(im_w, i), out_pitch(im_w))
  /\ im_decoded' = im_decoded \cup {i}
  /\ UNCHANGED << im_w, im_h, im_packet >>
  /\ UNCHANGED << tile_vars, quant_vars, pack_vars, block_vars >>

ImageNext ==
  \E i \in 0..(num_tiles(im_w, im_h) - 1) :
    \/ EncodeTileCall(i)
    \/ DecodeTileCall(i)

\* The state before process_image starts; the other components stay idle.
InitImage ==
  /\ ImageInit
  /\ TileIdle
  /\ QuantIdle
  /\ PackIdle
  /\ BlockIdle

SpecImage ==
  /\ InitImage
  /\ [][ImageNext]_vars

(***************************************************************************)
(* Properties of one tile's encode and decode (Spec).                      *)
(***************************************************************************)
\* the packet offsets that have been written
PacketWritten == { o \in DOMAIN packet : packet[o].kind # "uninit" }

EncodeReturned == pc \in {"decode", "dec_blocks", "done"}

\* the float the header holds at offset `at'
HeaderFloat(at) == packet[at].f

\* the bytes of record k
RecordBytes(k) ==
  << packet[64 + 4 * k].val, packet[64 + 4 * k + 1].val,
     packet[64 + 4 * k + 2].val, packet[64 + 4 * k + 3].val >>

\* byte c of pixel (px, py) of the output image, x_tiles * 160 pixels wide
OutByte(px, py, c) == load(out_rgb, (w \div 160) * 480, 480 * (w \div 160) * py + 3 * px + c)

\* the input block whose top-left pixel is pixel (px, py) of the image, as
\* the planar vector (R plane, G plane, B plane, each row by row)
InputBlock(px, py) ==
  [j \in 0..191 |->
     Frac(Pattern(img, px + (j % 8), py + ((j % 64) \div 8), j \div 64), 255)]

\* C1: for the 160x120 tile (300 blocks) encode writes every packet offset
\* 0..1263 = 0..(64 + 4*300 - 1) and none beyond, which is inside a buffer
\* of NANOSTREAM_PACKET_SIZE bytes, and decode reads exactly the offsets
\* 0..1263.
C1_PacketSize ==
  LET size == 64 + 4 * 300 IN
  pc # "idle" =>
    /\ size <= NANOSTREAM_PACKET_SIZE
    /\ enc_ptr <= size
    /\ PacketWritten \subseteq 0..(size - 1)
    /\ EncodeReturned => (PacketWritten = 0..(size - 1) /\ enc_ptr = size)
    /\ pkt_read \subseteq 0..(size - 1)
    /\ pc = "done" => (pkt_read = 0..(size - 1) /\ dec_ptr = size)

C1_Witness ==
  /\ pc = "done"
  /\ PacketWritten = 0..1263
  /\ pkt_read = 0..1263

\* record k is the packed codes of the block at (8*(k % 20), 8*(k \div 20))
\* of the tile, quantized with the range of the header
RecordOfBlock(k) ==
  LET px == tile_x(w, tile) + 8 * (k % 20)
      py == tile_y(w, tile) + 8 * (k \div 20)
      mn == [i \in 0..7 |-> HeaderFloat(4 * i)]
      mx == [i \in 0..7 |-> HeaderFloat(32 + 4 * i)]
  IN  /\ \A b \in 0..3 : packet[64 + 4 * k + b].kind = "byte"
      /\ RecordBytes(k) =
           quantize_eigen_values(to_eigen_values(tables, InputBlock(px, py)), mn, mx)

\* the output block at (8*(k % 20), 8*(k \div 20)) of the tile holds the
\* pixels reconstructed from record k
BlockOfRecord(k) ==
  LET px == tile_x(w, tile) + 8 * (k % 20)
      py == tile_y(w, tile) + 8 * (k \div 20)
      mn == [i \in 0..7 |-> HeaderFloat(4 * i)]
      mx == [i \in 0..7 |-> HeaderFloat(32 + 4 * i)]
      v  == Eager(eigen_values_to_block_vec(
                    tables, dequantize_codes(unpack_bits(RecordBytes(k)), mn, mx)))
  IN  \A j \in 0..191 :
        OutByte(px + (j % 8), py + ((j % 64) \div 8), j \div 64) = f32_to_u8(v[j])

\* the bytes of out_rgb that hold a pixel of the tile, and no others, have
\* been written
OnlyTheTileWritten ==
  \A py \in 0..(120 * (h \div 120) - 1) :
    \A px \in 0..(160 * (w \div 160) - 1) :
      \A c \in 0..2 :
        (OutByte(px, py, c) # UNINIT) <=>
          /\ py \in tile_y(w, tile)..(tile_y(w, tile) + 119)
          /\ px \in tile_x(w, tile)..(tile_x(w, tile) + 159)

\* C2: encode writes the 8 minima at offsets 0..31, the 8 maxima at 32..63
\* and the record of the block at (8*block_x, 8*block_y) at offsets
\* 64+4k..64+4k+3 for k = block_y*20 + block_x; decode reads the record at
\* those offsets and writes the pixels reconstructed from it to the block at
\* the same position, and to no other place.
C2_LayoutAndOrder ==
  /\ pc \in {"enc_quant", "decode"} =>
       /\ \A i \in 0..7 : \A b \in 0..3 :
            /\ packet[4 * i + b] = FloatCell(enc_min[i], b)
            /\ packet[32 + 4 * i + b] = FloatCell(enc_max[i], b)
       /\ enc_ptr = 64 + 4 * blk_i
  /\ pc = "decode" => \A k \in 0..299 : RecordOfBlock(k)
  /\ pc \in {"dec_blocks", "done"} =>
       /\ \A i \in 0..7 :
            /\ dec_min[i] = HeaderFloat(4 * i)
            /\ dec_max[i] = HeaderFloat(32 + 4 * i)
       /\ pkt_read = 0..(64 + 4 * (20 * block_y) - 1)
       /\ block_y > 0 =>
            \A bx \in 0..19 : BlockOfRecord(20 * (block_y - 1) + bx)
  /\ pc = "done" => OnlyTheTileWritten

C2_Witness ==
  /\ pc = "dec_blocks"
  /\ img = "ramp"
  /\ tile = 1
  /\ block_y = 7
  /\ OutByte(tile_x(w, tile) + 8 * 19 + 7, 8 * 6 + 7, 2) # UNINIT
  /\ OutByte(tile_x(w, tile), 8 * 7, 0) = UNINIT

\* the sum of the floats Term(lo), ..., Term(hi)
RECURSIVE FSum(_, _, _)
FSum(Term(_), lo, hi) ==
  IF lo > hi THEN F(0)
  ELSE IF lo = hi THEN Term(lo)
  ELSE LET mid == (lo + hi) \div 2
       IN  FAdd(FSum(Term, lo, mid), FSum(Term, mid + 1, hi))

\* coefficient i of a block whose 192 samples are all the byte s
FlatCoefficient(s, i) ==
  LET Term(j) == FMul(FSub(Frac(s, 255), nanostream_mean[tables][j]),
                      nanostream_eigen_values[tables][i][j])
  IN  FSum(Term, 0, 191)

\* the bytes of the 8-term expansion with coefficients coef
ExpansionBytes(coef) ==
  [j \in 0..191 |->
     LET Term(i) == FMul(coef[i], nanostream_eigen_values[tables][i][j])
     IN  f32_to_u8(FAdd(nanostream_mean[tables][j], FSum(Term, 0, 7)))]

\* every pixel of the tile's place in out_rgb is pixel (px % 8, py % 8) of
\* the block `bytes'
TileIsBlock(bytes) ==
  \A py \in tile_y(w, tile)..(tile_y(w, tile) + 119) :
    \A px \in tile_x(w, tile)..(tile_x(w, tile) + 159) :
      \A c \in 0..2 :
        OutByte(px, py, c) = bytes[64 * c + 8 * (py % 8) + (px % 8)]

\* every channel of every pixel of the tile's place in out_rgb is s +/- 1
TileIsNear(s) ==
  \A py \in tile_y(w, tile)..(tile_y(w, tile) + 119) :
    \A px \in tile_x(w, tile)..(tile_x(w, tile) + 159) :
      \A c \in 0..2 :
        /\ OutByte(px, py, c) >= s - 1
        /\ OutByte(px, py, c) <= s + 1

C10_RangeTracking ==
  /\ pc \in {"enc_header", "enc_quant", "decode"} =>
       \A i \in 0..7 :
         /\ \A k \in 0..299 :
              FLe(enc_min[i], enc_ev[k][i]) /\ FLe(enc_ev[k][i], enc_max[i])
         /\ \E k \in 0..299 : enc_ev[k][i] = enc_min[i]
         /\ \E k \in 0..299 : enc_ev[k][i] = enc_max[i]
         /\ FLe(enc_min[i], enc_max[i])
  /\ pc \in {"enc_quant", "decode"} =>
       /\ \A i \in 0..7 :
            /\ HeaderFloat(4 * i) = enc_min[i]
            /\ HeaderFloat(32 + 4 * i) = enc_max[i]
  /\ pc = "decode" =>
       \A k \in 0..299 :
         RecordBytes(k) =
           quantize_eigen_values(enc_ev[k],
                                 [i \in 0..7 |-> HeaderFloat(4 * i)],
                                 [i \in 0..7 |-> HeaderFloat(32 + 4 * i)])

C10_Witness ==
  /\ pc = "enc_quant"
  /\ img = "ramp"
  /\ \A i \in 0..7 : FLt(enc_min[i], enc_max[i])
  /\ \E k \in 1..298 : enc_ev[k][0] = enc_min[0]

(***************************************************************************)
(* Properties of the quantizer (SpecQuant).                                *)
(***************************************************************************)
\* C4: whenever max <= min, quantize_f32 returns 0 for any v and any levels
\* and does not perform the division by max - min.
C4_DegenerateRange ==
  FLe(qz_max_x, qz_min_x) =>
    /\ ~qz_divided
    /\ QuantizeReturned => qz_q = 0

C4_Witness ==
  /\ QuantizeReturned
  /\ qz_max_x = qz_min_x
  /\ qz_res = 255
  /\ FGt(qz_x, qz_max_x)
  /\ qz_q = 0

WithCode(i, q) == [ExampleCodes EXCEPT ![i] = q]

\* C6 as stated: for every v, min, max and levels quantize_f32 returns a
\* code in [0, levels].
C6_CodeInRangeAsStated ==
  QuantizeReturned => (0 <= qz_q /\ qz_q <= qz_res)

\* C6, amended: for every v, min, max and every levels >= 0 quantize_f32
\* returns a code in [0, levels], also for v outside [min, max], and for
\* levels < 0 it returns 0; so with levels 255, 15 and 3 a code fits its
\* field: packed into the field of any coefficient of that many levels and
\* unpacked again, it is the same code.
C6_CodeInRange ==
  QuantizeReturned =>
    /\ qz_res >= 0 => (0 <= qz_q /\ qz_q <= qz_res)
    /\ qz_res < 0 => qz_q = 0
    /\ \A i \in 0..7 :
         Levels(i) = qz_res =>
           unpack_bits(pack_bits(WithCode(i, qz_q))) = WithCode(i, qz_q)

C6_Witness ==
  /\ QuantizeReturned
  /\ FLt(qz_min_x, qz_max_x)
  /\ FGt(qz_x, qz_max_x)
  /\ qz_res = 15
  /\ qz_q = 15

(***************************************************************************)
(* Properties of the packing (SpecPack).                                   *)
(***************************************************************************)
\* C3: for codes c0, c1 in 0..255, c2, c3 in 0..15 and c4..c7 in 0..3 the
\* record is byte0 = c0, byte1 = c1, byte2 = (c2 << 4) | c3,
\* byte3 = c4 | (c5 << 2) | (c6 << 4) | (c7 << 6), and unpacking it returns
\* the same 8 codes.
C3_PackUnpack ==
  /\ pk_pc \in {"unpack", "unpacked"} =>
       pk_bits = << pk_q[0], pk_q[1], 16 * pk_q[2] + pk_q[3],
                    pk_q[4] + 4 * pk_q[5] + 16 * pk_q[6] + 64 * pk_q[7] >>
  /\ pk_pc = "unpacked" => pk_out = pk_q

C3_Witness ==
  /\ pk_pc = "unpacked"
  /\ pk_q = ExampleCodes
  /\ pk_bits = << 5, 200, 60, 57 >>
  /\ pk_out = ExampleCodes

(***************************************************************************)
(* Properties of the block transform (SpecBlock).                          *)
(***************************************************************************)
\* the byte of channel c of pixel (x, y) of the block
BlockPixel(x, y, c) == BlockByte(bt_seed, bt_pitch, bt_rgb + y * bt_pitch + 3 * x + c)

\* C7: block_to_vec puts channel c of pixel (x, y) at v[64*c + 8*y + x] as
\* byte / 255, and vec_to_block of that vector writes every channel of
\* every pixel of the block, at the same pixel and channel, within +/-1 of
\* the original (f32_to_u8(u8_to_f32(x)) is within +/-1 of x), and writes
\* nothing else.
C7_BlockRoundTrip ==
  /\ bt_pc \in {"vec_to_block", "stored"} =>
       \A c \in 0..2 : \A y \in 0..7 : \A x \in 0..7 :
         bt_v[64 * c + 8 * y + x] = Frac(BlockPixel(x, y, c), 255)
  /\ bt_pc = "stored" =>
       /\ DOMAIN bt_out = { bt_rgb + y * bt_pitch + 3 * x + c :
                              y \in 0..7, x \in 0..7, c \in 0..2 }
       /\ \A c \in 0..2 : \A y \in 0..7 : \A x \in 0..7 :
            LET b == bt_out[bt_rgb + y * bt_pitch + 3 * x + c] IN
            /\ b >= BlockPixel(x, y, c) - 1
            /\ b <= BlockPixel(x, y, c) + 1

C7_Witness ==
  /\ bt_pc = "stored"
  /\ bt_pitch > 24
  /\ BlockPixel(0, 0, 0) = 255
  /\ bt_out[bt_rgb] = 255
  /\ BlockPixel(7, 7, 2) # 255
  /\ bt_out[bt_rgb + 7 * bt_pitch + 23] = BlockPixel(7, 7, 2)

(***************************************************************************)
(* Properties of the calls of process_image (SpecImage).                   *)
(***************************************************************************)
\* the tile that pixel row r and chunk c of the output belong to
TileAt(r, c) == (r \div 120) * (im_w \div 160) + c

\* what a decode of the packet made of the input tile at that place stores
\* at row r, chunk c
ChunkOfInput(r, c) ==
  << << ((r \div 120) * 120 * im_w + 160 * c) * 3, 3 * im_w >>, r % 120 >>

\* C9: an encode call writes its packet only and a decode call writes only
\* the 480 bytes rgb[y*pitch + 0..479] of each row y in 0..119 of its own
\* tile; so whatever the order of the calls of the tiles, a place of the
\* output holds what the decode of its own tile stored there once that
\* decode has returned and nothing before, and the final image is the same.
C9_TileCallsIndependent ==
  /\ \A i \in im_decoded : im_packet[i] # NoPacket
  /\ \A r \in DOMAIN im_out : \A c \in DOMAIN im_out[r] :
       im_out[r][c] =
         IF TileAt(r, c) \in im_decoded THEN ChunkOfInput(r, c) ELSE NoChunk

C9_Witness ==
  /\ im_w \div 160 = 2
  /\ im_h \div 120 = 2
  /\ im_decoded = 0..3
  /\ im_out[239][1] = ChunkOfInput(239, 1)

=============================================================================
